---- MODULE Spec2Model ----
(***************************************************************************)
(* Model of cmd/headless/bot.go of racerxdl/minebot: the entity registry   *)
(* kept by handlePacket, the two event loops (eventRxLoop, eventTxLoop),    *)
(* the interrupt-handler goroutine and the supervisor (main).               *)
(*                                                                          *)
(* Each goroutine has a program counter.  The Connection is the external    *)
(* gophertunnel object: only the calls the program makes on it (Dial,       *)
(* ReadPacket, Close) and the outcomes they can have are modelled.          *)
(***************************************************************************)
EXTENDS Integers, Sequences, FiniteSets, TLC

VARIABLES
    players,        \* var players map[uint64]*Player            (bot.go:31)
    refPos,         \* history: id -> position the messages call for
    nmsgs,          \* history: number of messages dispatched so far
    lastPk,         \* pk of eventRxLoop: the packet dispatched last   (bot.go:156)
    prevPlayers,    \* history: the registry as it was before that dispatch
    proc,           \* "running", "exited", "crashed" or "killed"
    mainPc,         \* position of main
    handlerPc,      \* position of the interrupt-handler goroutine
    txPc,           \* position of eventTxLoop
    rxPc,           \* position of eventRxLoop
    closers,        \* who has invoked conn.Close() so far
    peerGone,       \* the peer has sent its disconnect on this Connection
    stopLen,        \* number of values buffered in the stop channel
    wgCount,        \* the WaitGroup counter
    dones,          \* history: wg.Done() calls made by each loop
    loopRunning,    \* var loopRunning                            (bot.go:120)
    txView,         \* the value eventTxLoop itself last wrote to loopRunning
    sigInstalled,   \* signal.Notify has been called
    interrupts,     \* history: OS interrupts delivered to the process
    sigDropped,     \* history: interrupts dropped because nobody was receiving on c
    dialFailures,   \* history: failed Dial attempts
    retryNotices,   \* history: error lines logged by the connect loop
    dialErrs,       \* history: the classes of the Dial errors met so far
    rxStarts,       \* history: go eventRxLoop statements executed
    txStarts,       \* history: go eventTxLoop statements executed
    handlerStarts,  \* history: go func() statements executed for the handler
    stopSends,      \* history: completed sends on stop
    stopRecvs,      \* history: completed receives from stop
    stopSentLive,   \* history: stop was sent while both loops were running
    log             \* the shutdown-related lines written so far, in order

vars == <<players, refPos, nmsgs, lastPk, prevPlayers, dones, proc, mainPc,
          handlerPc, txPc, rxPc, closers,
          peerGone, stopLen, wgCount, loopRunning, txView, sigInstalled,
          interrupts, sigDropped, dialFailures, retryNotices, dialErrs,
          rxStarts, txStarts, handlerStarts, stopSends, stopRecvs,
          stopSentLive, log>>

registryVars == <<players, refPos, nmsgs, lastPk, prevPlayers>>

sessionVars == <<dones, proc, mainPc, handlerPc, txPc, closers, peerGone, stopLen,
                 wgCount, loopRunning, txView, sigInstalled, interrupts,
                 sigDropped, dialFailures, retryNotices, dialErrs, rxStarts,
                 txStarts, handlerStarts, stopSends, stopRecvs, stopSentLive,
                 log>>

(***************************************************************************)
(* Bounds of the model.                                                     *)
(***************************************************************************)
MaxId == 2             \* runtime ids 1..MaxId
MaxMsgs == 3           \* messages replayed to the dispatcher alone
MaxSessionMsgs == 2    \* messages the Connection delivers in a session
MaxDialFailures == 2   \* failed Dial attempts in one run
MaxInterrupts == 2     \* OS interrupts in one run

(***************************************************************************)
(* Positions.  A coordinate is an integer number of quanta; Epsilon quanta  *)
(* is the threshold of mgl32's approximate equality, so that 1 is a         *)
(* difference below the threshold and Epsilon one that is not.              *)
(***************************************************************************)
Epsilon == 2

Ids == 1..MaxId
\* The remote players: display name and global id.
Profiles == {<<"Alice", 10>>, <<"Bob", 20>>}

Zero == <<0, 0, 0>>

Axis(i, c) == [j \in 1..3 |-> IF j = i THEN c ELSE 0]

Positions == {Zero, Axis(1, 1)} \cup {Axis(i, Epsilon) : i \in 1..3}

Abs(x) == IF x < 0 THEN -x ELSE x

FloatEqual(a, b) == Abs(a - b) < Epsilon

ApproxEqual(p, q) == \A i \in 1..3 : FloatEqual(p[i], q[i])

VecAdd(p, q) == [i \in 1..3 |-> p[i] + q[i]]

(***************************************************************************)
(* Packets.  Every packet is a record with the same fields; a kind reads    *)
(* only the fields its Go struct has.                                       *)
(***************************************************************************)
Pk(kind, id, name, gid, pos, died) ==
    [kind |-> kind, id |-> id, name |-> name, gid |-> gid, pos |-> pos,
     died |-> died]

AddPlayer(id, name, gid, pos) == Pk("AddPlayer", id, name, gid, pos, FALSE)
RemoveEntity(id) == Pk("RemoveEntity", id, "", 0, Zero, FALSE)
ActorEvent(id, died) == Pk("ActorEvent", id, "", 0, Zero, died)
MovePlayer(id, pos) == Pk("MovePlayer", id, "", 0, pos, FALSE)
MoveActorAbsolute(id, pos) == Pk("MoveActorAbsolute", id, "", 0, pos, FALSE)
MoveActorDelta(id, d) == Pk("MoveActorDelta", id, "", 0, d, FALSE)

InfoKinds == {"Text", "PlayerList", "Other"}

\* pk before the first ReadPacket has returned.
NoPacket == Pk("none", 0, "", 0, Zero, FALSE)

Packets ==
    {AddPlayer(id, w[1], w[2], p) : id \in Ids, w \in Profiles, p \in Positions}
    \cup {RemoveEntity(id) : id \in Ids}
    \cup {ActorEvent(id, d) : id \in Ids, d \in BOOLEAN}
    \cup {MovePlayer(id, p) : id \in Ids, p \in Positions}
    \cup {MoveActorAbsolute(id, p) : id \in Ids, p \in Positions}
    \cup {MoveActorDelta(id, p) : id \in Ids, p \in Positions}
    \cup {Pk(k, 0, "", 0, Zero, FALSE) : k \in InfoKinds}

\* The packets the Connection delivers in the session specification.
SessionPackets ==
    {AddPlayer(1, "Alice", 10, Zero), MovePlayer(1, Axis(1, Epsilon)),
     RemoveEntity(1)}

(***************************************************************************)
(* handlePacket (bot.go:33-118), one operator per case of its switch.       *)
(***************************************************************************)
Player(pk) ==
    [Username |-> pk.name, EntityRuntimeID |-> pk.id,
     EntityGlobalID |-> pk.gid, Position |-> pk.pos]

CaseRemoveEntity(reg, pk) ==
    IF pk.id \in DOMAIN reg
      THEN [i \in DOMAIN reg \ {pk.id} |-> reg[i]]
      ELSE reg

\* A variant that merges into a record that is present: the name is kept.
CaseAddPlayer_KeepName(reg, pk) ==
    [i \in DOMAIN reg \cup {pk.id} |->
        IF i # pk.id THEN reg[i]
        ELSE IF i \in DOMAIN reg
               THEN [Player(pk) EXCEPT !.Username = reg[i].Username]
               ELSE Player(pk)]

CaseAddPlayer(reg, pk) ==
    [i \in DOMAIN reg \cup {pk.id} |-> IF i = pk.id THEN Player(pk) ELSE reg[i]]

\* Only looks the player up and logs.
CaseActorEvent(reg, pk) == reg

CaseMoveAbsolute(reg, pk) ==
    IF pk.id \in DOMAIN reg /\ ~ApproxEqual(reg[pk.id].Position, pk.pos)
      THEN [reg EXCEPT ![pk.id].Position = pk.pos]
      ELSE reg

\* A variant that stores the delta as the position.
CaseMoveActorDelta_Replace(reg, pk) ==
    IF pk.id \in DOMAIN reg
      THEN [reg EXCEPT ![pk.id].Position = pk.pos]
      ELSE reg

\* A variant that creates the entity when the id is unknown.
CaseMoveActorDelta_Upsert(reg, pk) ==
    IF pk.id \in DOMAIN reg
      THEN [reg EXCEPT ![pk.id].Position = VecAdd(@, pk.pos)]
      ELSE [i \in DOMAIN reg \cup {pk.id} |->
               IF i = pk.id
                 THEN [Username |-> "", EntityRuntimeID |-> pk.id,
                       EntityGlobalID |-> 0, Position |-> pk.pos]
                 ELSE reg[i]]

CaseMoveActorDelta(reg, pk) ==
    IF pk.id \in DOMAIN reg
      THEN [reg EXCEPT ![pk.id].Position = VecAdd(@, pk.pos)]
      ELSE reg

handlePacket(reg, pk) ==
    CASE pk.kind = "RemoveEntity" -> CaseRemoveEntity(reg, pk)
      [] pk.kind = "AddPlayer" -> CaseAddPlayer(reg, pk)
      [] pk.kind = "ActorEvent" -> CaseActorEvent(reg, pk)
      [] pk.kind = "MovePlayer" -> CaseMoveAbsolute(reg, pk)
      [] pk.kind = "MoveActorAbsolute" -> CaseMoveAbsolute(reg, pk)
      [] pk.kind = "MoveActorDelta" -> CaseMoveActorDelta(reg, pk)
      [] OTHER -> reg

(***************************************************************************)
(* What the messages themselves call for (the registry contract: upsert,    *)
(* move, moveDelta, remove), kept beside the registry as a history.         *)
(***************************************************************************)
RefApply(ref, pk) ==
    CASE pk.kind = "AddPlayer" ->
           [i \in DOMAIN ref \cup {pk.id} |-> IF i = pk.id THEN pk.pos ELSE ref[i]]
      [] pk.kind = "RemoveEntity" ->
           [i \in DOMAIN ref \ {pk.id} |-> ref[i]]
      [] pk.kind \in {"MovePlayer", "MoveActorAbsolute"} /\ pk.id \in DOMAIN ref ->
           [ref EXCEPT ![pk.id] = pk.pos]
      [] pk.kind = "MoveActorDelta" /\ pk.id \in DOMAIN ref ->
           [ref EXCEPT ![pk.id] = VecAdd(@, pk.pos)]
      [] OTHER -> ref

(***************************************************************************)
(* State of the session.                                                    *)
(***************************************************************************)
Running == proc = "running"

connClosed == closers # {}

TxRunning == txPc \in {"check", "sleep", "select"}

RxRunning == rxPc = "read"

StopCap == 1

(***************************************************************************)
(* main (bot.go:169-240).  Configuration and token loading (170-188) have   *)
(* no effect on the session and are left out.                               *)
(***************************************************************************)
\* A variant in which only a handshake disconnect is retried: any other
\* error ends the process.
MainDialFail_OtherIsFatal(class) ==
    /\ Running /\ mainPc = "dial"
    /\ dialFailures < MaxDialFailures
    /\ dialFailures' = dialFailures + 1
    /\ retryNotices' = retryNotices + 1
    /\ dialErrs' = dialErrs \cup {class}
    /\ IF class = "disconnect"
         THEN mainPc' = "backoff" /\ proc' = proc
         ELSE mainPc' = mainPc /\ proc' = "exited"
    /\ UNCHANGED <<registryVars, handlerPc, txPc, rxPc, closers, peerGone,
                   stopLen, wgCount, dones, loopRunning, txView, sigInstalled,
                   interrupts, sigDropped, rxStarts, txStarts, handlerStarts,
                   stopSends, stopRecvs, stopSentLive, log>>

\* Dial fails (198-205): one error line, whichever the class, then the sleep.
MainDialFail(class) ==
    /\ Running /\ mainPc = "dial"
    /\ dialFailures < MaxDialFailures
    /\ dialFailures' = dialFailures + 1
    /\ retryNotices' = retryNotices + 1
    /\ dialErrs' = dialErrs \cup {class}
    /\ mainPc' = "backoff"
    /\ UNCHANGED <<registryVars, proc, handlerPc, txPc, rxPc, closers, peerGone,
                   stopLen, wgCount, dones, loopRunning, txView, sigInstalled,
                   interrupts, sigDropped, rxStarts, txStarts, handlerStarts,
                   stopSends, stopRecvs, stopSentLive, log>>

\* time.Sleep(time.Second), then the loop tests !connected again (194, 205).
MainBackoff ==
    /\ Running /\ mainPc = "backoff"
    /\ mainPc' = "dial"
    /\ UNCHANGED <<registryVars, proc, handlerPc, txPc, rxPc, closers, peerGone,
                   stopLen, wgCount, dones, loopRunning, txView, sigInstalled,
                   interrupts, sigDropped, dialFailures, retryNotices,
                   dialErrs, rxStarts, txStarts, handlerStarts, stopSends,
                   stopRecvs, stopSentLive, log>>

\* Dial succeeds (206-208); the deferred Close is registered (210-212).
MainDialOk ==
    /\ Running /\ mainPc = "dial"
    /\ mainPc' = "setup"
    /\ UNCHANGED <<registryVars, proc, handlerPc, txPc, rxPc, closers, peerGone,
                   stopLen, wgCount, dones, loopRunning, txView, sigInstalled,
                   interrupts, sigDropped, dialFailures, retryNotices, dialErrs,
                   rxStarts, txStarts, handlerStarts, stopSends, stopRecvs,
                   stopSentLive, log>>

\* The channels and the WaitGroup (214-217).
MainSetup ==
    /\ Running /\ mainPc = "setup"
    /\ stopLen' = 0
    /\ wgCount' = wgCount + 2
    /\ dones' = dones
    /\ mainPc' = "notify"
    /\ UNCHANGED <<registryVars, proc, handlerPc, txPc, rxPc, closers, peerGone,
                   loopRunning, txView, sigInstalled, interrupts, sigDropped,
                   dialFailures, retryNotices, dialErrs, rxStarts, txStarts,
                   handlerStarts, stopSends, stopRecvs, stopSentLive, log>>

\* signal.Notify(c, os.Interrupt, syscall.SIGTERM) (219).
MainNotify ==
    /\ Running /\ mainPc = "notify"
    /\ sigInstalled' = TRUE
    /\ mainPc' = "goHandler"
    /\ UNCHANGED <<registryVars, proc, handlerPc, txPc, rxPc, closers, peerGone,
                   stopLen, wgCount, dones, loopRunning, txView, interrupts, sigDropped,
                   dialFailures, retryNotices, dialErrs, rxStarts, txStarts,
                   handlerStarts, stopSends, stopRecvs, stopSentLive, log>>

\* go func() { ... }() (220, 233).
MainGoHandler ==
    /\ Running /\ mainPc = "goHandler"
    /\ handlerPc' = "spawned"
    /\ handlerStarts' = handlerStarts + 1
    /\ mainPc' = "goRx"
    /\ UNCHANGED <<registryVars, proc, txPc, rxPc, closers, peerGone, stopLen,
                   wgCount, dones, loopRunning, txView, sigInstalled, interrupts,
                   sigDropped, dialFailures, retryNotices, dialErrs, rxStarts,
                   txStarts, stopSends, stopRecvs, stopSentLive, log>>

\* go eventRxLoop(conn, wg) (235-236).
MainGoRx ==
    /\ Running /\ mainPc = "goRx"
    /\ rxPc' = "spawned"
    /\ rxStarts' = rxStarts + 1
    /\ mainPc' = "goTx"
    /\ UNCHANGED <<registryVars, proc, handlerPc, txPc, closers, peerGone,
                   stopLen, wgCount, dones, loopRunning, txView, sigInstalled,
                   interrupts, sigDropped, dialFailures, retryNotices,
                   dialErrs, txStarts, handlerStarts, stopSends, stopRecvs,
                   stopSentLive, log>>

\* go eventTxLoop(conn, wg, stop) (237).
MainGoTx ==
    /\ Running /\ mainPc = "goTx"
    /\ txPc' = "spawned"
    /\ txStarts' = txStarts + 1
    /\ mainPc' = "wait"
    /\ UNCHANGED <<registryVars, proc, handlerPc, rxPc, closers, peerGone,
                   stopLen, wgCount, dones, loopRunning, txView, sigInstalled,
                   interrupts, sigDropped, dialFailures, retryNotices,
                   dialErrs, rxStarts, handlerStarts, stopSends, stopRecvs,
                   stopSentLive, log>>

\* A variant whose wait returns as soon as one of the two loops is done.
MainWait_OneLoop ==
    /\ Running /\ mainPc = "wait"
    /\ wgCount <= 1
    /\ mainPc' = "deferred"
    /\ UNCHANGED <<registryVars, proc, handlerPc, txPc, rxPc, closers, peerGone,
                   stopLen, wgCount, dones, loopRunning, txView, sigInstalled,
                   interrupts, sigDropped, dialFailures, retryNotices,
                   dialErrs, rxStarts, txStarts, handlerStarts, stopSends,
                   stopRecvs, stopSentLive, log>>

\* wg.Wait() returns (239).
MainWait ==
    /\ Running /\ mainPc = "wait"
    /\ wgCount = 0
    /\ mainPc' = "deferred"
    /\ UNCHANGED <<registryVars, proc, handlerPc, txPc, rxPc, closers, peerGone,
                   stopLen, wgCount, dones, loopRunning, txView, sigInstalled,
                   interrupts, sigDropped, dialFailures, retryNotices,
                   dialErrs, rxStarts, txStarts, handlerStarts, stopSends,
                   stopRecvs, stopSentLive, log>>

\* main returns: the deferred function runs conn.Close() (210-212, 240).
MainDeferredClose ==
    /\ Running /\ mainPc = "deferred"
    /\ closers' = closers \cup {"main"}
    /\ mainPc' = "returned"
    /\ UNCHANGED <<registryVars, proc, handlerPc, txPc, rxPc, peerGone, stopLen,
                   wgCount, dones, loopRunning, txView, sigInstalled, interrupts,
                   sigDropped, dialFailures, retryNotices, dialErrs, rxStarts,
                   txStarts, handlerStarts, stopSends, stopRecvs, stopSentLive,
                   log>>

\* The process exits once main has returned; the Go runtime lets a goroutine
\* that is already panicking finish (and crash the process) first.
MainExit ==
    /\ Running /\ mainPc = "returned"
    /\ rxPc # "panicking"
    /\ proc' = "exited"
    /\ UNCHANGED <<registryVars, mainPc, handlerPc, txPc, rxPc, closers,
                   peerGone, stopLen, wgCount, dones, loopRunning, txView, sigInstalled,
                   interrupts, sigDropped, dialFailures, retryNotices,
                   dialErrs, rxStarts, txStarts, handlerStarts, stopSends,
                   stopRecvs, stopSentLive, log>>

(***************************************************************************)
(* The interrupt handler goroutine (bot.go:220-233) and the OS signal.      *)
(***************************************************************************)
\* The goroutine reaches <-c and parks there (221).
HandlerBlock ==
    /\ Running /\ handlerPc = "spawned"
    /\ handlerPc' = "waiting"
    /\ UNCHANGED <<registryVars, proc, mainPc, txPc, rxPc, closers, peerGone,
                   stopLen, wgCount, dones, loopRunning, txView, sigInstalled,
                   interrupts, sigDropped, dialFailures, retryNotices,
                   dialErrs, rxStarts, txStarts, handlerStarts, stopSends,
                   stopRecvs, stopSentLive, log>>

\* An interrupt or SIGTERM arrives.  Before signal.Notify the default action
\* ends the process.  After it, os/signal sends on c without blocking: the
\* value reaches the handler only if it is parked at <-c (c is unbuffered,
\* 214), and is dropped otherwise.
Interrupt ==
    /\ Running
    /\ interrupts < MaxInterrupts
    /\ interrupts' = interrupts + 1
    /\ IF ~sigInstalled
         THEN proc' = "killed" /\ UNCHANGED <<handlerPc, sigDropped>>
         ELSE IF handlerPc = "waiting"
                THEN handlerPc' = "fired" /\ UNCHANGED <<proc, sigDropped>>
                ELSE sigDropped' = sigDropped + 1 /\ UNCHANGED <<proc, handlerPc>>
    /\ UNCHANGED <<registryVars, mainPc, txPc, rxPc, closers, peerGone, stopLen,
                   wgCount, dones, loopRunning, txView, sigInstalled, dialFailures,
                   retryNotices, dialErrs, rxStarts, txStarts, handlerStarts,
                   stopSends, stopRecvs, stopSentLive, log>>

\* log.Info("Closing bot\n") and the timer (222-225).
HandlerLogClosing ==
    /\ Running /\ handlerPc = "fired"
    /\ log' = Append(log, "Closing bot")
    /\ handlerPc' = "select"
    /\ UNCHANGED <<registryVars, proc, mainPc, txPc, rxPc, closers, peerGone,
                   stopLen, wgCount, dones, loopRunning, txView, sigInstalled,
                   interrupts, sigDropped, dialFailures, retryNotices,
                   dialErrs, rxStarts, txStarts, handlerStarts, stopSends,
                   stopRecvs, stopSentLive>>

\* A variant for an unbuffered stop: the send is taken only when eventTxLoop
\* is parked at its receive, and the timer fires otherwise.
HandlerSelect_Unbuffered ==
    /\ Running /\ handlerPc = "select"
    /\ IF txPc = "select" /\ stopLen = 0
         THEN /\ stopLen' = stopLen + 1
              /\ stopSends' = stopSends + 1
              /\ stopSentLive' = (stopSentLive \/ (TxRunning /\ RxRunning))
              /\ log' = log
         ELSE /\ log' = Append(log, "timeout waiting close")
              /\ UNCHANGED <<stopLen, stopSends, stopSentLive>>
    /\ handlerPc' = "close"
    /\ UNCHANGED <<registryVars, proc, mainPc, txPc, rxPc, closers, peerGone,
                   wgCount, dones, loopRunning, txView, sigInstalled, interrupts,
                   sigDropped, dialFailures, retryNotices, dialErrs, rxStarts,
                   txStarts, handlerStarts, stopRecvs>>

\* select { case stop <- struct{}{}: ; case <-t.C: ... } (226-230): the send
\* is taken when the channel has room; the timer fires only if it has none
\* for five seconds.
HandlerSelect ==
    /\ Running /\ handlerPc = "select"
    /\ IF stopLen < StopCap
         THEN /\ stopLen' = stopLen + 1
              /\ stopSends' = stopSends + 1
              /\ stopSentLive' = (stopSentLive \/ (TxRunning /\ RxRunning))
              /\ log' = log
         ELSE /\ log' = Append(log, "timeout waiting close")
              /\ UNCHANGED <<stopLen, stopSends, stopSentLive>>
    /\ handlerPc' = "close"
    /\ UNCHANGED <<registryVars, proc, mainPc, txPc, rxPc, closers, peerGone,
                   wgCount, dones, loopRunning, txView, sigInstalled, interrupts,
                   sigDropped, dialFailures, retryNotices, dialErrs, rxStarts,
                   txStarts, handlerStarts, stopRecvs>>

\* _ = conn.Close() (231).
HandlerClose ==
    /\ Running /\ handlerPc = "close"
    /\ closers' = closers \cup {"handler"}
    /\ handlerPc' = "bye"
    /\ UNCHANGED <<registryVars, proc, mainPc, txPc, rxPc, peerGone, stopLen,
                   wgCount, dones, loopRunning, txView, sigInstalled, interrupts,
                   sigDropped, dialFailures, retryNotices, dialErrs, rxStarts,
                   txStarts, handlerStarts, stopSends, stopRecvs, stopSentLive,
                   log>>

\* A variant whose goroutine loops back to <-c after the goodbye line.
HandlerBye_Again ==
    /\ Running /\ handlerPc = "bye"
    /\ log' = Append(log, "Gotcha. KTHXBYE")
    /\ handlerPc' = "waiting"
    /\ UNCHANGED <<registryVars, proc, mainPc, txPc, rxPc, closers, peerGone,
                   stopLen, wgCount, dones, loopRunning, txView, sigInstalled,
                   interrupts, sigDropped, dialFailures, retryNotices,
                   dialErrs, rxStarts, txStarts, handlerStarts, stopSends,
                   stopRecvs, stopSentLive>>

\* log.Infoln("Gotcha. KTHXBYE") (232); the goroutine ends.
HandlerBye ==
    /\ Running /\ handlerPc = "bye"
    /\ log' = Append(log, "Gotcha. KTHXBYE")
    /\ handlerPc' = "done"
    /\ UNCHANGED <<registryVars, proc, mainPc, txPc, rxPc, closers, peerGone,
                   stopLen, wgCount, dones, loopRunning, txView, sigInstalled,
                   interrupts, sigDropped, dialFailures, retryNotices,
                   dialErrs, rxStarts, txStarts, handlerStarts, stopSends,
                   stopRecvs, stopSentLive>>

(***************************************************************************)
(* eventTxLoop (bot.go:122-150).                                            *)
(***************************************************************************)
\* loopRunning = true, the ticker, the log line (124-127).
TxStart ==
    /\ Running /\ txPc = "spawned"
    /\ loopRunning' = TRUE
    /\ txView' = TRUE
    /\ txPc' = "check"
    /\ UNCHANGED <<registryVars, proc, mainPc, handlerPc, rxPc, closers,
                   peerGone, stopLen, wgCount, dones, sigInstalled, interrupts,
                   sigDropped, dialFailures, retryNotices, dialErrs, rxStarts,
                   txStarts, handlerStarts, stopSends, stopRecvs, stopSentLive,
                   log>>

\* for loopRunning (128).  The flag is shared with eventRxLoop without any
\* synchronisation: the read returns what is in memory or what this
\* goroutine wrote last.  When it reads false the function returns and the
\* deferred t.Stop() and wg.Done() run (123, 126).
TxCheck ==
    /\ Running /\ txPc = "check"
    /\ \E v \in {loopRunning, txView} :
         IF v THEN /\ txPc' = "sleep"
                   /\ UNCHANGED <<wgCount, dones>>
              ELSE /\ txPc' = "done"
                   /\ wgCount' = wgCount - 1
                   /\ dones' = [dones EXCEPT !.tx = @ + 1]
    /\ UNCHANGED <<registryVars, proc, mainPc, handlerPc, rxPc, closers,
                   peerGone, stopLen, loopRunning, txView, sigInstalled,
                   interrupts, sigDropped, dialFailures, retryNotices,
                   dialErrs, rxStarts, txStarts, handlerStarts, stopSends,
                   stopRecvs, stopSentLive, log>>

\* time.Sleep(time.Millisecond * 100) (129).
TxSleep ==
    /\ Running /\ txPc = "sleep"
    /\ txPc' = "select"
    /\ UNCHANGED <<registryVars, proc, mainPc, handlerPc, rxPc, closers,
                   peerGone, stopLen, wgCount, dones, loopRunning, txView, sigInstalled,
                   interrupts, sigDropped, dialFailures, retryNotices,
                   dialErrs, rxStarts, txStarts, handlerStarts, stopSends,
                   stopRecvs, stopSentLive, log>>

\* select { case <-stop: ... } (131-133): the only case is the receive, no
\* default, so the goroutine stays here until stop holds a value.
TxRecvStop ==
    /\ Running /\ txPc = "select"
    /\ stopLen > 0
    /\ stopLen' = stopLen - 1
    /\ stopRecvs' = stopRecvs + 1
    /\ log' = Append(log, "closing event loop")
    /\ txPc' = "stopping"
    /\ UNCHANGED <<registryVars, proc, mainPc, handlerPc, rxPc, closers,
                   peerGone, wgCount, dones, loopRunning, txView, sigInstalled,
                   interrupts, sigDropped, dialFailures, retryNotices,
                   dialErrs, rxStarts, txStarts, handlerStarts, stopSends,
                   stopSentLive>>

\* A variant that also empties the players map when the loop closes.
TxClose_ClearsRegistry ==
    /\ Running /\ txPc = "stopping"
    /\ loopRunning' = FALSE
    /\ txView' = FALSE
    /\ closers' = closers \cup {"tx"}
    /\ players' = <<>>
    /\ txPc' = "check"
    /\ UNCHANGED <<refPos, nmsgs, lastPk, prevPlayers, proc, mainPc, handlerPc,
                   rxPc, peerGone, stopLen, wgCount, dones, sigInstalled,
                   interrupts, sigDropped, dialFailures, retryNotices, dialErrs,
                   rxStarts, txStarts, handlerStarts, stopSends, stopRecvs,
                   stopSentLive, log>>

\* loopRunning = false; _ = conn.Close() (134-135).
TxClose ==
    /\ Running /\ txPc = "stopping"
    /\ loopRunning' = FALSE
    /\ txView' = FALSE
    /\ closers' = closers \cup {"tx"}
    /\ txPc' = "check"
    /\ UNCHANGED <<registryVars, proc, mainPc, handlerPc, rxPc, peerGone,
                   stopLen, wgCount, dones, sigInstalled, interrupts, sigDropped,
                   dialFailures, retryNotices, dialErrs, rxStarts, txStarts,
                   handlerStarts, stopSends, stopRecvs, stopSentLive, log>>

(***************************************************************************)
(* eventRxLoop (bot.go:152-167) and the peer.                               *)
(***************************************************************************)
\* log.Info("RX Event loop started\n") (154).
RxStart ==
    /\ Running /\ rxPc = "spawned"
    /\ rxPc' = "read"
    /\ UNCHANGED <<registryVars, sessionVars>>

\* ReadPacket returns a packet and handlePacket dispatches it (156, 165).
RxReceive(pk) ==
    /\ Running /\ rxPc = "read"
    /\ ~connClosed /\ ~peerGone
    /\ nmsgs < MaxMsgs
    /\ players' = handlePacket(players, pk)
    /\ refPos' = RefApply(refPos, pk)
    /\ nmsgs' = nmsgs + 1
    /\ lastPk' = pk
    /\ prevPlayers' = players
    /\ UNCHANGED <<rxPc, sessionVars>>

\* A variant that treats a peer disconnect like any other receive error.
RxReadDisconnect_SilentStop ==
    /\ Running /\ rxPc = "read"
    /\ peerGone
    /\ rxPc' = "stopping"
    /\ UNCHANGED <<registryVars, sessionVars>>

\* ReadPacket fails with an error that unwraps to DisconnectError: the error
\* line, then panic(disconnect) (158-160).  The deferred wg.Done() runs while
\* the goroutine panics (153).
RxReadDisconnect ==
    /\ Running /\ rxPc = "read"
    /\ peerGone
    /\ wgCount' = wgCount - 1
    /\ dones' = [dones EXCEPT !.rx = @ + 1]
    /\ rxPc' = "panicking"
    /\ UNCHANGED <<registryVars, proc, mainPc, handlerPc, txPc, closers,
                   peerGone, stopLen, loopRunning, txView, sigInstalled,
                   interrupts, sigDropped, dialFailures, retryNotices,
                   dialErrs, rxStarts, txStarts, handlerStarts, stopSends,
                   stopRecvs, stopSentLive, log>>

\* The unrecovered panic ends the process.
RxCrash ==
    /\ Running /\ rxPc = "panicking"
    /\ proc' = "crashed"
    /\ UNCHANGED <<registryVars, mainPc, handlerPc, txPc, rxPc, closers,
                   peerGone, stopLen, wgCount, dones, loopRunning, txView, sigInstalled,
                   interrupts, sigDropped, dialFailures, retryNotices,
                   dialErrs, rxStarts, txStarts, handlerStarts, stopSends,
                   stopRecvs, stopSentLive, log>>

\* ReadPacket fails on a Connection this process has closed (156-158).
RxReadClosed ==
    /\ Running /\ rxPc = "read"
    /\ connClosed /\ ~peerGone
    /\ rxPc' = "stopping"
    /\ UNCHANGED <<registryVars, sessionVars>>

\* ReadPacket fails for another reason (network failure) (156-158).
RxReadFailed ==
    /\ Running /\ rxPc = "read"
    /\ ~connClosed /\ ~peerGone
    /\ rxPc' = "stopping"
    /\ UNCHANGED <<registryVars, sessionVars>>

\* A variant without the deferred wg.Done().
RxStop_NoDone ==
    /\ Running /\ rxPc = "stopping"
    /\ loopRunning' = FALSE
    /\ rxPc' = "done"
    /\ UNCHANGED <<registryVars, proc, mainPc, handlerPc, txPc, closers,
                   peerGone, stopLen, wgCount, dones, txView, sigInstalled,
                   interrupts, sigDropped, dialFailures, retryNotices, dialErrs,
                   rxStarts, txStarts, handlerStarts, stopSends, stopRecvs,
                   stopSentLive, log>>

\* loopRunning = false; return, and the deferred wg.Done() (162-163, 153).
RxStop ==
    /\ Running /\ rxPc = "stopping"
    /\ loopRunning' = FALSE
    /\ wgCount' = wgCount - 1
    /\ dones' = [dones EXCEPT !.rx = @ + 1]
    /\ rxPc' = "done"
    /\ UNCHANGED <<registryVars, proc, mainPc, handlerPc, txPc, closers,
                   peerGone, stopLen, txView, sigInstalled, interrupts,
                   sigDropped, dialFailures, retryNotices, dialErrs, rxStarts,
                   txStarts, handlerStarts, stopSends, stopRecvs, stopSentLive,
                   log>>

\* The server disconnects the client while the Connection is open.
PeerDisconnect ==
    /\ Running
    /\ mainPc \notin {"dial", "backoff"}
    /\ ~connClosed /\ ~peerGone
    /\ peerGone' = TRUE
    /\ UNCHANGED <<registryVars, proc, mainPc, handlerPc, txPc, rxPc, closers,
                   stopLen, wgCount, dones, loopRunning, txView, sigInstalled,
                   interrupts, sigDropped, dialFailures, retryNotices,
                   dialErrs, rxStarts, txStarts, handlerStarts, stopSends,
                   stopRecvs, stopSentLive, log>>

(***************************************************************************)
(* The session: from the start of the connect loop of main.                 *)
(***************************************************************************)
Init ==
    /\ players = <<>>
    /\ refPos = <<>>
    /\ nmsgs = 0
    /\ lastPk = NoPacket
    /\ prevPlayers = <<>>
    /\ dones = [rx |-> 0, tx |-> 0]
    /\ proc = "running"
    /\ mainPc = "dial"
    /\ handlerPc = "none"
    /\ txPc = "none"
    /\ rxPc = "none"
    /\ closers = {}
    /\ peerGone = FALSE
    /\ stopLen = 0
    /\ wgCount = 0
    /\ loopRunning = FALSE
    /\ txView = FALSE
    /\ sigInstalled = FALSE
    /\ interrupts = 0
    /\ sigDropped = 0
    /\ dialFailures = 0
    /\ retryNotices = 0
    /\ dialErrs = {}
    /\ rxStarts = 0
    /\ txStarts = 0
    /\ handlerStarts = 0
    /\ stopSends = 0
    /\ stopRecvs = 0
    /\ stopSentLive = FALSE
    /\ log = <<>>

Next ==
    \/ \E class \in {"disconnect", "other"} : MainDialFail(class)
    \/ MainBackoff
    \/ MainDialOk
    \/ MainSetup
    \/ MainNotify
    \/ MainGoHandler
    \/ MainGoRx
    \/ MainGoTx
    \/ MainWait
    \/ MainDeferredClose
    \/ MainExit
    \/ HandlerBlock
    \/ Interrupt
    \/ HandlerLogClosing
    \/ HandlerSelect
    \/ HandlerClose
    \/ HandlerBye
    \/ TxStart
    \/ TxCheck
    \/ TxSleep
    \/ TxRecvStop
    \/ TxClose
    \/ RxStart
    \/ \E pk \in SessionPackets : nmsgs < MaxSessionMsgs /\ RxReceive(pk)
    \/ RxReadDisconnect
    \/ RxCrash
    \/ RxReadClosed
    \/ RxReadFailed
    \/ RxStop
    \/ PeerDisconnect

Spec == Init /\ [][Next]_vars

(***************************************************************************)
(* The dispatcher alone: a live session (both loops running, nothing        *)
(* closed) with an empty registry, and the Connection delivering any        *)
(* message of Packets.                                                      *)
(***************************************************************************)
InitDispatch ==
    /\ players = <<>>
    /\ refPos = <<>>
    /\ nmsgs = 0
    /\ lastPk = NoPacket
    /\ prevPlayers = <<>>
    /\ dones = [rx |-> 0, tx |-> 0]
    /\ proc = "running"
    /\ mainPc = "wait"
    /\ handlerPc = "waiting"
    /\ txPc = "select"
    /\ rxPc = "read"
    /\ closers = {}
    /\ peerGone = FALSE
    /\ stopLen = 0
    /\ wgCount = 2
    /\ loopRunning = TRUE
    /\ txView = TRUE
    /\ sigInstalled = TRUE
    /\ interrupts = 0
    /\ sigDropped = 0
    /\ dialFailures = 0
    /\ retryNotices = 0
    /\ dialErrs = {}
    /\ rxStarts = 1
    /\ txStarts = 1
    /\ handlerStarts = 1
    /\ stopSends = 0
    /\ stopRecvs = 0
    /\ stopSentLive = FALSE
    /\ log = <<>>

NextDispatch == \E pk \in Packets : RxReceive(pk)

SpecDispatch == InitDispatch /\ [][NextDispatch]_vars

(***************************************************************************)
(* Scheduling: the Go scheduler runs every goroutine that can take a step.  *)
(* Nothing is assumed of the environment: the outcome of Dial, the arrival  *)
(* of messages, of network failures, of the peer's disconnect and of OS     *)
(* signals.                                                                 *)
(***************************************************************************)
MainStep ==
    \/ MainBackoff \/ MainSetup \/ MainNotify \/ MainGoHandler \/ MainGoRx
    \/ MainGoTx \/ MainWait \/ MainDeferredClose \/ MainExit

HandlerStep ==
    HandlerBlock \/ HandlerLogClosing \/ HandlerSelect \/ HandlerClose \/ HandlerBye

TxStep == TxStart \/ TxCheck \/ TxSleep \/ TxRecvStop \/ TxClose

RxStep == RxStart \/ RxReadDisconnect \/ RxCrash \/ RxReadClosed \/ RxStop

FairSpec ==
    /\ Spec
    /\ WF_vars(MainStep)
    /\ WF_vars(HandlerStep)
    /\ WF_vars(TxStep)
    /\ WF_vars(RxStep)

(***************************************************************************)
(* Properties.                                                              *)
(***************************************************************************)
\* The id of the packet dispatched last was in the registry before it.
HitLast == lastPk.id \in DOMAIN prevPlayers

\* Every entry but the one of the packet dispatched last is as it was.
OthersKept ==
    \A o \in DOMAIN prevPlayers \ {lastPk.id} :
        o \in DOMAIN players /\ players[o] = prevPlayers[o]

\* C1: after any replay of add, move, delta-move and remove messages from an
\* empty registry, the registry holds exactly the ids whose last add is not
\* followed by a remove, each at the position its last add, move or
\* delta-move calls for.
C1_ReplayMatchesMessages ==
    /\ DOMAIN players = DOMAIN refPos
    /\ \A id \in DOMAIN players : players[id].Position = refPos[id]

\* C2: once the shutdown signal has been sent while both loops run,
\* eventTxLoop is the one that consumes it and closes the Connection: it
\* cannot have returned without having done both.
C2_TxConsumesStop ==
    (stopSentLive /\ txPc = "done") => ("tx" \in closers /\ stopRecvs = 1)

\* C3: every failed Dial, of either error class, logs one retry notice and
\* leads back to Dial after the backoff; nothing is started before Dial
\* succeeds; afterwards the notices number the failures and each loop has
\* been started exactly once.
C3_RetryUntilConnected ==
    /\ [](retryNotices = dialFailures /\ (dialFailures = 0 <=> dialErrs = {}))
    /\ [](mainPc \in {"dial", "backoff"} =>
            /\ rxStarts = 0 /\ txStarts = 0 /\ handlerStarts = 0
            /\ rxPc = "none" /\ txPc = "none" /\ handlerPc = "none"
            /\ ~sigInstalled)
    /\ [](rxStarts <= 1 /\ txStarts <= 1 /\ handlerStarts <= 1)
    /\ [](mainPc \in {"wait", "deferred", "returned"} =>
            rxStarts = 1 /\ txStarts = 1)
    /\ [][dialFailures' # dialFailures =>
            /\ dialFailures' = dialFailures + 1
            /\ retryNotices' = retryNotices + 1
            /\ mainPc' = "backoff"
            /\ proc' = "running"]_vars
    /\ [][(mainPc = "backoff" /\ mainPc' # mainPc) => mainPc' = "dial"]_vars

\* C3 witness: two failures, one of each class, then both loops started.
C3_Witness ==
    /\ dialErrs = {"disconnect", "other"}
    /\ dialFailures = 2 /\ retryNotices = 2
    /\ mainPc = "wait"
    /\ rxStarts = 1 /\ txStarts = 1

\* C4: whenever the process has ended after a Connection was established,
\* by main returning or by the panic of eventRxLoop, conn.Close() has been
\* invoked.
C4_ClosedOnEveryExit == proc \in {"exited", "crashed"} => connClosed

\* C5: a receive that fails with a peer disconnect makes eventRxLoop panic
\* instead of returning; from then on nothing is dispatched, eventRxLoop
\* never returns, main never dials again (it never does once connected),
\* the process cannot exit normally, and it ends crashed.
C5_DisconnectIsFatal ==
    /\ [][(rxPc = "read" /\ peerGone /\ rxPc' # rxPc) => rxPc' = "panicking"]_vars
    /\ [][rxPc = "panicking" =>
            /\ rxPc' = "panicking"
            /\ nmsgs' = nmsgs /\ players' = players
            /\ dialFailures' = dialFailures
            /\ (proc' \in {"running", "crashed"})]_vars
    /\ [][(mainPc \notin {"dial", "backoff"}) =>
            (mainPc' \notin {"dial", "backoff"})]_vars
    /\ (rxPc = "panicking") ~> (proc = "crashed")

\* C5 witness: the process crashed on a disconnect after messages had been
\* dispatched.
C5_Witness == proc = "crashed" /\ rxPc = "panicking" /\ nmsgs > 0

\* C6: a receive that fails with an error that is no peer disconnect makes
\* eventRxLoop stop and return: one wg.Done(), no change of the registry,
\* the process keeps running.
C6_OtherErrorStopsQuietly ==
    /\ [][(rxPc = "read" /\ ~peerGone /\ rxPc' # rxPc) =>
            /\ rxPc' = "stopping"
            /\ UNCHANGED <<players, wgCount, dones, proc>>]_vars
    /\ [][(rxPc = "stopping" /\ rxPc' # rxPc) =>
            /\ rxPc' = "done"
            /\ dones'.rx = dones.rx + 1
            /\ wgCount' = wgCount - 1
            /\ UNCHANGED <<players, proc>>]_vars
    /\ [][(rxPc \in {"stopping", "done"}) =>
            /\ players' = players
            /\ (rxPc' \in {"stopping", "done"})]_vars
    /\ [](rxPc = "stopping" => dones.rx = 0)
    /\ [](rxPc = "done" => dones.rx = 1)

\* C6 witness: eventRxLoop has returned on a failed receive (nothing was
\* closed locally), the registry still holds an entity, the process runs.
C6_Witness ==
    /\ rxPc = "done" /\ dones.rx = 1
    /\ ~connClosed /\ ~peerGone
    /\ DOMAIN players # {}
    /\ proc = "running"

\* C7: a move, delta-move, remove or died event for an id that is not in
\* the registry leaves the registry as it was, and eventRxLoop goes on
\* reading.
C7_UnknownIdIsNoOp ==
    ( /\ \/ lastPk.kind \in {"MovePlayer", "MoveActorAbsolute",
                             "MoveActorDelta", "RemoveEntity"}
         \/ lastPk.kind = "ActorEvent" /\ lastPk.died
      /\ ~HitLast )
    => (players = prevPlayers /\ rxPc = "read" /\ proc = "running")

\* C7 witness: a remove dispatched on an empty registry.
C7_Witness ==
    /\ nmsgs = 1
    /\ lastPk.kind = "RemoveEntity"
    /\ prevPlayers = <<>> /\ players = <<>>

\* C8: an add for an id that is present replaces the whole record by the
\* values of the message and changes no other entry.
C8_ReAddReplacesRecord ==
    (lastPk.kind = "AddPlayer" /\ HitLast) =>
        /\ DOMAIN players = DOMAIN prevPlayers
        /\ players[lastPk.id].Username = lastPk.name
        /\ players[lastPk.id].EntityRuntimeID = lastPk.id
        /\ players[lastPk.id].EntityGlobalID = lastPk.gid
        /\ players[lastPk.id].Position = lastPk.pos
        /\ OthersKept

\* C8 witness: a re-add that differs from the old record in name, global id
\* and position, with another entity in the registry.
C8_Witness ==
    /\ lastPk.kind = "AddPlayer" /\ HitLast
    /\ prevPlayers[lastPk.id].Username # lastPk.name
    /\ prevPlayers[lastPk.id].EntityGlobalID # lastPk.gid
    /\ prevPlayers[lastPk.id].Position # lastPk.pos
    /\ Cardinality(DOMAIN prevPlayers) = 2

\* C9: a delta-move for a present entity leaves its position at the
\* component-wise sum of the old position and the delta, its name and ids
\* as they were, and every other entry as it was.
C9_DeltaAddsComponentwise ==
    (lastPk.kind = "MoveActorDelta" /\ HitLast) =>
        /\ DOMAIN players = DOMAIN prevPlayers
        /\ \A i \in 1..3 :
             players[lastPk.id].Position[i] =
                 prevPlayers[lastPk.id].Position[i] + lastPk.pos[i]
        /\ players[lastPk.id].Username = prevPlayers[lastPk.id].Username
        /\ players[lastPk.id].EntityRuntimeID = prevPlayers[lastPk.id].EntityRuntimeID
        /\ players[lastPk.id].EntityGlobalID = prevPlayers[lastPk.id].EntityGlobalID
        /\ OthersKept

\* C9 witness: the third message of Add(pos=(0,0,0)), Move(pos=(1,0,0)),
\* DeltaMove(delta=(0,1,0)), with 1.0 being Epsilon quanta: the entity is at
\* (1,1,0).
C9_Witness ==
    /\ nmsgs = 3
    /\ lastPk = MoveActorDelta(1, Axis(2, Epsilon))
    /\ 1 \in DOMAIN prevPlayers
    /\ prevPlayers[1].Position = Axis(1, Epsilon)
    /\ refPos[1] = <<Epsilon, Epsilon, 0>>
    /\ players[1].Position = <<Epsilon, Epsilon, 0>>

\* C10: after an absolute move for a present entity the stored position is
\* the position of the message, whether or not it is within the epsilon of
\* the old one.
C10_AbsoluteMoveStores ==
    (lastPk.kind \in {"MovePlayer", "MoveActorAbsolute"} /\ HitLast) =>
        players[lastPk.id].Position = lastPk.pos

\* The handler goroutine has received the interrupt from c.
HandlerFired == handlerPc \in {"fired", "select", "close", "bye", "done"}

\* C11: once the handler has fired, the Connection gets closed whatever
\* eventTxLoop does: the process cannot have ended, after the handler
\* fired, with conn.Close() never invoked.
C11_ClosedAfterHandlerFired ==
    (HandlerFired /\ proc # "running") => connClosed

\* C12: with no shutdown signal sent, eventTxLoop waiting in its select can
\* finish the iteration (the polling interval is enough) and go back to the
\* test of loopRunning: it is never a goroutine that only stop can wake.
C12_IterationEndsWithoutStop ==
    (Running /\ txPc = "select" /\ stopSends = 0) => ENABLED TxStep

\* eventRxLoop is over: it returned, or it is unwinding its panic; in both
\* cases the deferred wg.Done() has run.
RxOver == rxPc \in {"done", "panicking"}

\* C13: main is past wg.Wait() only when both loops are over, each having
\* called wg.Done() exactly once; the counter is never negative and always
\* the number of loops that have not called Done yet.
C13_WaitJoinsBothLoops ==
    /\ (mainPc \in {"deferred", "returned"}) =>
          /\ txPc = "done" /\ RxOver
          /\ dones.tx = 1 /\ dones.rx = 1
    /\ wgCount >= 0
    /\ dones.tx <= 1 /\ dones.rx <= 1
    /\ (mainPc \notin {"dial", "backoff", "setup"}) =>
          wgCount = 2 - dones.tx - dones.rx
    /\ (dones.tx = 1 <=> txPc = "done")
    /\ (dones.rx = 1 <=> RxOver)

\* C13 witness: main has returned after both loops returned.
C13_Witness ==
    /\ mainPc = "returned"
    /\ txPc = "done" /\ rxPc = "done"
    /\ wgCount = 0 /\ dones.tx = 1 /\ dones.rx = 1

\* C14: whatever the number of interrupts, at most one send on stop
\* succeeds and at most one receive, the receive never before the send; the
\* sender is the handler and the receiver is eventTxLoop in its select.
C14_StopIsOneShot ==
    /\ [](stopSends <= 1 /\ stopRecvs <= 1)
    /\ [](stopLen = stopSends - stopRecvs /\ stopLen \in 0..StopCap)
    /\ [][stopSends' # stopSends =>
            /\ stopSends' = stopSends + 1
            /\ handlerPc = "select" /\ handlerPc' = "close"]_vars
    /\ [][stopRecvs' # stopRecvs =>
            /\ stopRecvs' = stopRecvs + 1
            /\ txPc = "select" /\ txPc' = "stopping"
            /\ UNCHANGED <<mainPc, handlerPc, rxPc>>]_vars

\* C14 witness: two interrupts arrived, one send and one receive succeeded.
C14_Witness ==
    /\ interrupts = 2 /\ sigDropped = 1
    /\ stopSends = 1 /\ stopRecvs = 1 /\ stopLen = 0
    /\ txPc = "done" /\ handlerPc = "done"

\* C15: the registry changes only in a dispatch step of eventRxLoop, which
\* applies handlePacket to the packet it has just read, on the registry the
\* previous dispatch left, one message per step; no step of main, of the
\* handler or of eventTxLoop changes it; eventRxLoop is started at most
\* once, so two dispatches never overlap.
C15_OnlyRxWritesRegistry ==
    /\ [][players' # players =>
            /\ rxPc = "read" /\ rxPc' = "read"
            /\ nmsgs' = nmsgs + 1
            /\ UNCHANGED <<mainPc, handlerPc, txPc>>]_vars
    /\ [][nmsgs' # nmsgs =>
            /\ nmsgs' = nmsgs + 1
            /\ prevPlayers' = players
            /\ players' = handlePacket(players, lastPk')]_vars
    /\ [][(<<mainPc, handlerPc, txPc>>' # <<mainPc, handlerPc, txPc>>) =>
            UNCHANGED <<players, nmsgs, lastPk>>]_vars
    /\ [](rxStarts <= 1)
    /\ [](rxPc \in {"none", "spawned"} => (players = <<>> /\ nmsgs = 0))

\* C15 witness: two messages were dispatched and left an entity in the
\* registry, and the handler and eventTxLoop have run to their ends.
C15_Witness ==
    /\ nmsgs = 2 /\ DOMAIN players # {}
    /\ txPc = "done" /\ "tx" \in closers
    /\ handlerPc = "done"

\* C16: when the process has exited by main's return after a shutdown that
\* an interrupt triggered (eventTxLoop received the handler's stop), the
\* log holds the handler's closing line and, after it, its goodbye line.
C16_GoodbyeBeforeExit ==
    (proc = "exited" /\ stopRecvs = 1) =>
        \E i, j \in DOMAIN log :
            /\ i < j
            /\ log[i] = "Closing bot"
            /\ log[j] = "Gotcha. KTHXBYE"

\* C17: eventTxLoop has returned only after it received from stop and
\* called conn.Close(), whatever eventRxLoop wrote to loopRunning.
C17_TxStopsOnlyThroughStopping ==
    txPc = "done" => (stopRecvs = 1 /\ "tx" \in closers)

\* C18: when eventRxLoop has returned on a receive error and no interrupt
\* has arrived, the session is not stuck: while the process runs, some
\* goroutine of the program can take a step (eventTxLoop towards its
\* return, or main towards its exit).
C18_NoHangAfterRxStops ==
    (Running /\ rxPc = "done" /\ interrupts = 0) =>
        ENABLED (MainStep \/ HandlerStep \/ TxStep)

\* C19: no interrupt that arrives after signal.Notify is dropped before the
\* handler goroutine has received one: the shutdown request is not lost.
C19_NoInterruptLost ==
    (sigInstalled /\ sigDropped > 0) => HandlerFired

\* C20: the handler's select never takes the timer case: when the handler
\* is at the select stop has room, the step it takes is the send, the
\* timeout line is never logged, whether eventTxLoop runs or not; and the
\* handler's next step calls conn.Close().
C20_SendNeverTimesOut ==
    /\ [](\A i \in DOMAIN log : log[i] # "timeout waiting close")
    /\ [](handlerPc = "select" => (stopLen < StopCap /\ stopSends = 0))
    /\ [][(handlerPc = "select" /\ handlerPc' # handlerPc) =>
            /\ stopSends' = stopSends + 1
            /\ stopLen' = stopLen + 1
            /\ log' = log
            /\ handlerPc' = "close"]_vars
    /\ [][(handlerPc = "close" /\ handlerPc' # handlerPc) =>
            /\ handlerPc' = "bye"
            /\ "handler" \in closers']_vars
    /\ [](handlerPc \in {"bye", "done"} => "handler" \in closers)

\* C20 witness: the handler sent, closed and finished after eventTxLoop had
\* already returned; the value is still in stop.
C20_Witness ==
    /\ handlerPc = "done" /\ "handler" \in closers
    /\ txPc = "done" /\ stopRecvs = 0
    /\ stopSends = 1 /\ stopLen = 1

====
